---- MODULE Spec2Model ----
(***************************************************************************)
(* Model of the editor-page subsystem of archive-bot (src/util/editor):    *)
(*   base.py       EditorPage, disable_when_processing                     *)
(*   hierarchy.py  SwitchablePage, ChildPage, ParentPage                   *)
(*   menu.py       MenuPage, SubmenuPage                                   *)
(*   closable.py   ClosableEditor                                          *)
(* Each part has its own specification over the same variables; the        *)
(* variables a part does not use keep their initial value.                 *)
(***************************************************************************)
EXTENDS Naturals, Integers, Sequences, FiniteSets, TLC

\* ------------------------------------------------------------------ bounds
NumPages == 2     \* pages of one type that share one decorated (guarded) callback
NumComps == 2     \* components (view children) of a page
MaxInv   == 2     \* invocations of the guarded callback
Depth    == 3     \* depth of the declared menu tree: root -> A -> B -> C
MaxObjs  == 4     \* page objects constructed in one session
MaxClose == 1     \* close interactions delivered to the closable page
MaxOverlap == 2   \* close interactions that overlap on the closable page
MaxStops == 1     \* direct stop() calls on the closable page
MaxAwait == 1     \* callers that await the closable page
MaxCb    == 1     \* component callbacks in flight at once
MaxPgObjs == 3    \* pages with their own render target
NumMsgs  == 1     \* messages a page can be bound to
NumEmbeds == 2    \* embeds a page can hold
MaxSize  == 2     \* size a LimitedList is created with
MaxExt   == 2     \* elements of the iterable given to extend and extend_safely
MaxLen   == 4     \* elements a list is let grow to
NumElems == 2     \* values of list elements
NumChannels == 2  \* channels a webhook is asked for
NumGuilds == 2    \* guilds the channels belong to
MaxHooks == 3     \* webhooks created in Discord
MaxPress == 2     \* button presses delivered to a confirmation view
MaxConfAwait == 1 \* callers that await a confirmation view
MaxTimestamp == 3 \* timestamps of raw snowflakes
MaxWorker == 3    \* worker ids of raw snowflakes
MaxProcess == 3   \* process ids of raw snowflakes
MaxIncrement == 4 \* increments of raw snowflakes

Pages == 1..NumPages
Comps == 1..NumComps
Invs  == 1..MaxInv
Types == 0..Depth \* the page types of the tree: 0 the root menu, t + 1 the child of t
ObjIds == 1..MaxObjs
Cbs   == 1..MaxCb
Closers == 1..MaxOverlap
Awaiters == 1..MaxAwait

VARIABLES
  disabled,        \* [Pages -> [Comps -> BOOLEAN]]: item.disabled of every component
  disabled_items,  \* disable_when_processing.disabled_items: list of <<page, comp>>
  editor,          \* disable_when_processing.editor: page of the latest __call__ (0: unset)
  inv,             \* the invocations of the guarded callback (coroutines of __call__)
  objs,            \* the page objects constructed so far: <<[type, parent]>>, index = identity
  child_instances, \* ParentPage._child_instances: [object -> [type -> object, 0: no entry]]
  ended,           \* [object -> BOOLEAN]: the page was stopped or timed out
  cb,              \* the component callbacks in flight (coroutines started by the host's
                   \* events); a callback that has returned leaves its slot idle
  rendered,        \* the page whose update_message last edited the shared message
  obj_disabled,    \* [object -> [Comps -> BOOLEAN]]: item.disabled of a menu page's components
  view,            \* the closable page as a View: "open", "stopped" or "timedout"
  ending_task,     \* ClosableEditor.__ending_task: index in onEnd (0: None)
  onEnd,           \* the executions of on_end launched so far, in launch order
  on_timeout,      \* the coroutine of ClosableEditor.on_timeout: [pc, run]
  closer,          \* the close interactions (coroutines of _close_interaction)
  stops,           \* direct stop() calls made so far
  awaiter          \* the callers that await the page

guardVars == <<disabled, disabled_items, editor, inv>>
hierVars == <<objs, child_instances, ended, cb, rendered, obj_disabled>>
closeVars == <<view, ending_task, onEnd, on_timeout, closer, stops, awaiter>>

VARIABLES
  pg,              \* pages with their own render target, and what the last operation did
  decorator        \* the disable_when_processing object: [st, func, flags]

VARIABLES
  ll,              \* a LimitedList: [items, size] and what the last call on it did
  pool,            \* the WebhookPool, the webhooks Discord holds, and what the last call did
  cv,              \* a ConfirmationView: its future, its callbacks and the callers awaiting it
  sf               \* a raw snowflake, its integer and what the integer decodes to

utilVars == <<ll, pool, cv, sf>>
restVars == <<pg, decorator, utilVars>>
vars == <<disabled, disabled_items, editor, inv, objs, child_instances, ended, cb, rendered,
          obj_disabled, view, ending_task, onEnd, on_timeout, closer, stops, awaiter,
          pg, decorator, ll, pool, cv, sf>>

\* --------------------------------------------------------------- base.py
\* An invocation before __call__: nothing observed yet.
IdleInv ==
  [pc |-> "idle", page |-> 0,
   snap |-> [c \in Comps |-> FALSE],    \* item.disabled of its page when __aenter__ began
   post |-> [c \in Comps |-> FALSE],    \* item.disabled of its page when the loop of __aexit__
                                        \* ended, or when the invocation ended without it
   postItems |-> <<>>,                  \* disabled_items at that moment
   renders |-> <<>>,                    \* pages whose update_message this invocation called
   exc |-> FALSE]                       \* the guarded function raised

RECURSIVE EnabledItems(_, _)
\* The items __aenter__ appends for page p, in the order of editor.children, from component c on.
EnabledItems(p, c) ==
  IF c > NumComps THEN <<>>
  ELSE (IF disabled[p][c] THEN <<>> ELSE << <<p, c>> >>) \o EnabledItems(p, c + 1)

\* item.disabled after the loop of __aenter__ on page p: every component disabled.
AenterFlags(p) == [disabled EXCEPT ![p] = [c \in Comps |-> TRUE]]

\* disabled_items after the loop of __aenter__ on page p.
AenterItems(p) == disabled_items \o EnabledItems(p, 1)

ItemSet == {disabled_items[k] : k \in 1..Len(disabled_items)}

\* A bug __aexit__ could have: re-enable every component of the guard's page.
AexitFlagsAll ==
  [q \in Pages |-> [c \in Comps |->
      IF q = editor \/ <<q, c>> \in ItemSet THEN FALSE ELSE disabled[q][c]]]

\* item.disabled after the loop of __aexit__: exactly the remembered items are re-enabled.
AexitFlags ==
  [q \in Pages |-> [c \in Comps |->
      IF <<q, c>> \in ItemSet THEN FALSE ELSE disabled[q][c]]]

\* The functions a decorator can be applied to.
FuncKinds == {"async def", "def"}

\* inspect.iscoroutinefunction(func)
iscoroutinefunction(f) == f = "async def"

\* A bug __init__ could have: no test of the function.
InitRaisesNever(f) == FALSE

\* disable_when_processing.__init__ raises ValueError.
InitRaises(f) == ~iscoroutinefunction(f)

\* No decorator object yet.
NoDecorator == [st |-> "none", func |-> "", flags |-> <<>>]

\* disable_when_processing(func): __init__ raises, or sets func and an empty
\* disabled_items. `flags` keeps the components' flags of that moment.
GuardConstruct(f) ==
  /\ decorator.st = "none"
  /\ decorator' = [st |-> IF InitRaises(f) THEN "failed" ELSE "built",
                   func |-> f, flags |-> disabled]
  /\ UNCHANGED <<guardVars, hierVars, closeVars, pg, utilVars>>

\* __call__ up to the first suspension: self.editor = editor, then __aenter__ runs its
\* loop and calls update_message on self.editor.
GuardCall(i, p) ==
  /\ decorator.st = "built"
  /\ inv[i].pc = "idle"
  /\ \A j \in 1..(i - 1) : inv[j].pc # "idle"
  /\ editor' = p
  /\ disabled' = AenterFlags(p)
  /\ disabled_items' = AenterItems(p)
  /\ inv' = [inv EXCEPT ![i] = [@ EXCEPT !.pc = "entering", !.page = p,
                                          !.snap = disabled[p], !.renders = <<p>>]]
  /\ UNCHANGED <<hierVars, closeVars, restVars>>

\* The entry render completes and self.func starts.
GuardEntered(i) ==
  /\ inv[i].pc = "entering"
  /\ inv' = [inv EXCEPT ![i].pc = "body"]
  /\ UNCHANGED <<disabled, disabled_items, editor, hierVars, closeVars, restVars>>

\* The entry render (message.edit) raises: __aenter__ raises, so __aexit__ is not run.
GuardEntryFails(i) ==
  /\ inv[i].pc = "entering"
  /\ inv' = [inv EXCEPT ![i] = [@ EXCEPT !.pc = "failed",
                                          !.post = disabled[inv[i].page],
                                          !.postItems = disabled_items]]
  /\ UNCHANGED <<disabled, disabled_items, editor, hierVars, closeVars, restVars>>

\* __aexit__ up to its suspension: re-enable, clear, call update_message on self.editor.
Release(i, raised) ==
  /\ disabled' = AexitFlags
  /\ disabled_items' = <<>>
  /\ inv' = [inv EXCEPT ![i] = [@ EXCEPT !.pc = "exiting", !.exc = raised,
                                          !.post = AexitFlags[inv[i].page],
                                          !.postItems = <<>>,
                                          !.renders = Append(@, editor)]]
  /\ UNCHANGED <<editor, hierVars, closeVars, restVars>>

\* A bug __call__ could have: the release step is skipped when the function raises.
GuardBodyRaisesNoRelease(i) ==
  /\ inv[i].pc = "body"
  /\ inv' = [inv EXCEPT ![i] = [@ EXCEPT !.pc = "raised", !.exc = TRUE,
                                          !.post = disabled[inv[i].page],
                                          !.postItems = disabled_items]]
  /\ UNCHANGED <<disabled, disabled_items, editor, hierVars, closeVars, restVars>>

\* self.func returns: the async with block is left normally.
GuardBodyReturns(i) ==
  /\ inv[i].pc = "body"
  /\ Release(i, FALSE)

\* self.func raises: the async with block is left by the exception, __aexit__ still runs.
GuardBodyRaises(i) ==
  /\ inv[i].pc = "body"
  /\ Release(i, TRUE)

\* The exit render completes; __aexit__ returns None, so an exception is not suppressed.
GuardExited(i) ==
  /\ inv[i].pc = "exiting"
  /\ inv' = [inv EXCEPT ![i].pc = IF inv[i].exc THEN "raised" ELSE "returned"]
  /\ UNCHANGED <<disabled, disabled_items, editor, hierVars, closeVars, restVars>>

\* ---------------------------------------------------------- hierarchy.py
\* isinstance(page, ChildPage) for a page of type t: every type but the root's.
IsChildPage(t) == t > 0

\* type(self).CHILDREN of a page of type t.
CHILDREN(t) == IF t < Depth THEN {t + 1} ELSE {}

\* A callback function no decorator has marked: it has neither skip attribute.
NoFlags == [set |-> FALSE, du |-> FALSE, dmu |-> FALSE]

\* disable_update(disable_update=du, disable_message_update=dmu): both attributes
\* are set on the function.
disable_update(du, dmu) == [set |-> TRUE, du |-> du, dmu |-> dmu]

\* @disable_update applied bare: the keyword defaults.
disable_update_default == disable_update(TRUE, FALSE)

\* The markings a callback function can carry.
FlagSets == {NoFlags} \cup {disable_update(du, dmu) : du, dmu \in BOOLEAN}

\* A bug the wrapper could have: update_message before update.
WrapperCallsSwapped(o, f) ==
  (IF f.set /\ f.dmu THEN <<>> ELSE << <<"update_message", o>> >>)
  \o (IF f.set /\ f.du THEN <<>> ELSE << <<"update", o>> >>)

\* A bug the wrapper could have: one test for both phases.
WrapperCallsCoupled(o, f) ==
  IF f.set /\ f.du THEN <<>> ELSE << <<"update", o>>, <<"update_message", o>> >>

\* The calls the wrapper of _wraps_update makes on page o once the callback, whose
\* function carries the marking f, has returned: update unless
\* __editor_disable_update__ is there and true, then update_message unless
\* __editor_disable_message_update__ is there and true.
WrapperCalls(o, f) ==
  (IF f.set /\ f.du THEN <<>> ELSE << <<"update", o>> >>)
  \o (IF f.set /\ f.dmu THEN <<>> ELSE << <<"update_message", o>> >>)

\* The page the message shows after a sequence of calls: update_message edits it.
RenderedAfter(calls) ==
  IF \E j \in 1..Len(calls) : calls[j][1] = "update_message"
  THEN calls[Len(calls)][2] ELSE rendered

\* A callback slot with no callback in flight.
IdleCb ==
  [pc |-> "idle", kind |-> "none", page |-> 0, value |-> 0,
   child |-> 0,          \* what get_child returned to this callback (0: not called)
   switches |-> <<>>,    \* the targets of the switch calls this callback made
   calls |-> <<>>,       \* the update / update_message calls made on its behalf
   wrapper |-> <<>>,     \* those of them made by the wrapper of _wraps_update
   ret |-> 0,            \* what switch returned to this callback (0: not returned)
   flags |-> NoFlags,    \* the skip attributes of the callback's function
   raw |-> "",           \* self.values[0] of a selection that maps to no child
   option |-> 0,         \* the declared child whose option was selected (0: none)
   logged |-> FALSE,     \* LOGGER.error was called
   replied |-> FALSE]    \* interaction.response.send_message was called

\* A bug the construction could have: the option carries the id of the menu's own type.
OptionValueOfMenu(t) == ToString(t - 1)

\* The value of the option MenuPage.__init__ builds for child type t: str(id(child)).
OptionValue(t) == ToString(t)

\* The options of the select MenuPage.__init__ builds for a page of type t: one per
\* element of type(self).CHILDREN.
MenuOptions(t) == {OptionValue(c) : c \in CHILDREN(t)}

\* The values the host can send for the select: the options' and one that is no number.
RawValues == {"x"} \cup {OptionValue(t) : t \in Types}

\* int(self.values[0]) returns: the value is the decimal form of a number.
ParsesAsInt(raw) == \E n \in Types : ToString(n) = raw

\* child_id = int(self.values[0])
IntOf(raw) == CHOOSE n \in Types : ToString(n) = raw

\* filter(lambda c: id(c) == child_id, self.editor.CHILDREN)
Matching(o, raw) == {t \in CHILDREN(objs[o].type) : t = IntOf(raw)}

\* next(filter(...)): the declared child the value maps to (0: none).
ResolveChild(o, raw) ==
  IF ParsesAsInt(raw) /\ Matching(o, raw) # {}
  THEN CHOOSE t \in Matching(o, raw) : TRUE ELSE 0

\* A bug get_child could have: no test of the declared children.
GetChildRaisesNever(o, t) == FALSE

\* get_child(child_type) on page o raises KeyError.
GetChildRaises(o, t) == t \notin CHILDREN(objs[o].type)

\* The object get_child returns: the cached instance, or a new one.
GetChildResult(o, t) ==
  IF child_instances[o][t] # 0 THEN child_instances[o][t] ELSE Len(objs) + 1

\* The objects after get_child: child_type(self.message, self.embed, parent=self)
\* is constructed when the cache holds no instance.
GetChildObjs(o, t) ==
  IF child_instances[o][t] # 0 THEN objs
  ELSE Append(objs, [type |-> t, parent |-> o,
                     seen |-> obj_disabled[o],   \* the parent's flags at that time
                     options |-> MenuOptions(t)])

\* The cache after get_child: the method reads _child_instances and never stores in it.
GetChildCache(o, t) == child_instances

\* A bug _back_to_top could have: stop at the direct parent.
RootOfOneHop(o) == objs[o].parent

RECURSIVE Climb(_)
\* while isinstance(root, ChildPage): root = root.parent
Climb(r) == IF IsChildPage(objs[r].type) THEN Climb(objs[r].parent) ELSE r

\* _back_to_top: root = self.parent, then the loop.
RootOf(o) == Climb(objs[o].parent)

\* A bug switch_to_parent could have: switch to the top of the tree.
ParentOfRoot(o) == Climb(objs[o].parent)

\* switch_to_parent: the target is self.parent, the reference stored at construction.
ParentOf(o) == objs[o].parent

\* A bug switch could have: update and render the calling page.
SwitchCallsCaller(o, t) == << <<"update", o>>, <<"update_message", o>> >>

\* switch called on page o with the page object t: editor_object.update(), then
\* editor_object.update_message().
SwitchCalls(o, t) == << <<"update", t>>, <<"update_message", t>> >>

\* The target a callback of the given kind switches to, once get_child has run.
TargetOf(k) ==
  CASE cb[k].kind = "select" -> GetChildResult(cb[k].page, cb[k].value)
    [] cb[k].kind = "back"   -> ParentOf(cb[k].page)
    [] cb[k].kind = "top"    -> RootOf(cb[k].page)

\* Selections that have passed defer and will construct a page.
Pending == Cardinality({k \in Cbs : cb[k].pc = "deferring" /\ cb[k].kind = "select"})

\* The host delivers an event of a component of page o, the page the shared message
\* shows: _MenuSelect.callback with the value of the option of declared child v, which
\* the callback maps back to a child, or the Back / Back to top button of a submenu.
\* The callback runs up to its first suspension, interaction.response.defer().
Press(k, kind, o, v) ==
  /\ cb[k].pc = "idle"
  /\ \A j \in 1..(k - 1) : cb[j].pc # "idle"
  /\ o \in 1..Len(objs)
  /\ o = rendered
  /\ ~ended[o]
  /\ \/ kind = "select" /\ v \in CHILDREN(objs[o].type) /\ Len(objs) + Pending < MaxObjs
     \/ kind \in {"back", "top"} /\ v = 0 /\ IsChildPage(objs[o].type)
  /\ cb' = [cb EXCEPT ![k] =
       IF kind = "select"
       THEN [IdleCb EXCEPT !.pc = "deferring", !.kind = kind, !.page = o, !.option = v,
                           !.value = ResolveChild(o, OptionValue(v))]
       ELSE [IdleCb EXCEPT !.pc = "deferring", !.kind = kind, !.page = o, !.value = v]]
  /\ UNCHANGED <<objs, child_instances, ended, rendered, obj_disabled, guardVars, closeVars, restVars>>

\* The host delivers an event of a component of the shown page o whose callback calls
\* self.get_child(t) and returns. get_child runs at once; when it raises, the error
\* leaves the callback, else _wraps_update refreshes the page.
GetChildPress(k, o, t) ==
  /\ cb[k].pc = "idle"
  /\ \A j \in 1..(k - 1) : cb[j].pc # "idle"
  /\ o \in 1..Len(objs)
  /\ o = rendered
  /\ ~ended[o]
  /\ IF GetChildRaises(o, t)
     THEN /\ cb' = [cb EXCEPT ![k] = [IdleCb EXCEPT !.pc = "raised", !.kind = "getchild",
                                                    !.page = o, !.value = t]]
          /\ UNCHANGED <<objs, child_instances, rendered>>
     ELSE /\ Len(objs) + Pending < MaxObjs
          /\ objs' = GetChildObjs(o, t)
          /\ child_instances' = GetChildCache(o, t)
          /\ rendered' = RenderedAfter(WrapperCalls(o, NoFlags))
          /\ cb' = [cb EXCEPT ![k] = [IdleCb EXCEPT
                      !.pc = "refreshing", !.kind = "getchild", !.page = o, !.value = t,
                      !.child = GetChildResult(o, t),
                      !.calls = WrapperCalls(o, NoFlags),
                      !.wrapper = WrapperCalls(o, NoFlags)]]
  /\ UNCHANGED <<ended, obj_disabled, guardVars, closeVars, restVars>>

\* The error of a callback reaches the host's dispatcher, which logs it.
CallbackRaised(k) ==
  /\ cb[k].pc = "raised"
  /\ cb' = [cb EXCEPT ![k] = IdleCb]
  /\ UNCHANGED <<objs, child_instances, ended, rendered, obj_disabled, guardVars, closeVars, restVars>>

\* defer is done; switch_to_child / switch_to_parent / switch(root) runs up to the
\* suspension of the target's update_message: get_child (select only), then
\* switch: editor_object.update(), editor_object.update_message().
SwitchStart(k) ==
  /\ cb[k].pc = "deferring"
  /\ LET t == TargetOf(k) IN
     /\ objs' = IF cb[k].kind = "select" THEN GetChildObjs(cb[k].page, cb[k].value) ELSE objs
     /\ child_instances' =
          IF cb[k].kind = "select" THEN GetChildCache(cb[k].page, cb[k].value)
          ELSE child_instances
     /\ rendered' = RenderedAfter(SwitchCalls(cb[k].page, t))
     /\ cb' = [cb EXCEPT ![k] = [@ EXCEPT
                 !.pc = "rendering",
                 !.child = IF cb[k].kind = "select" THEN t ELSE 0,
                 !.switches = Append(@, t),
                 !.calls = @ \o SwitchCalls(cb[k].page, t)]]
  /\ UNCHANGED <<ended, obj_disabled, guardVars, closeVars, restVars>>

\* A bug the construction could have: the wrapping reaches the components added later.
IsWrappedAlways(kind) == TRUE

\* The component's callback was wrapped by the loop of EditorPage.__init__: the
\* decorated buttons are children then, the select of a menu is added by
\* MenuPage.__init__ once that loop has run.
IsWrapped(kind) == kind # "select"

\* The target's render is done and switch returns editor_object. _MenuSelect.callback
\* then ends (it was added after the wrapping); a submenu button is wrapped by
\* _wraps_update, which calls update and update_message of the submenu itself.
SwitchReturn(k) ==
  /\ cb[k].pc = "rendering"
  /\ IF ~IsWrapped(cb[k].kind)
     THEN /\ cb' = [cb EXCEPT ![k] = IdleCb]
          /\ UNCHANGED rendered
     ELSE /\ cb' = [cb EXCEPT ![k] = [@ EXCEPT
                      !.pc = "refreshing",
                      !.ret = cb[k].switches[Len(cb[k].switches)],
                      !.calls = @ \o WrapperCalls(cb[k].page, cb[k].flags),
                      !.wrapper = WrapperCalls(cb[k].page, cb[k].flags)]]
          /\ rendered' = RenderedAfter(WrapperCalls(cb[k].page, cb[k].flags))
  /\ UNCHANGED <<objs, child_instances, ended, obj_disabled, guardVars, closeVars, restVars>>

\* The host delivers a selection on the shown page o whose value maps to no declared
\* child. A value that is no number makes int() raise ValueError, which the
\* callback handles: it logs, sends the message and returns. For a number no child
\* has, next() of the empty filter raises StopIteration; the handler there is for
\* KeyError, so nothing is logged or sent and the error leaves the callback.
SelectUnmapped(k, o, raw) ==
  /\ cb[k].pc = "idle"
  /\ \A j \in 1..(k - 1) : cb[j].pc # "idle"
  /\ o \in 1..Len(objs)
  /\ o = rendered
  /\ ~ended[o]
  /\ IF ParsesAsInt(raw) THEN Matching(o, raw) = {} ELSE TRUE
  /\ cb' = [cb EXCEPT ![k] =
       IF ~ParsesAsInt(raw)
       THEN [IdleCb EXCEPT !.pc = "reporting", !.kind = "select", !.page = o, !.raw = raw,
                           !.logged = TRUE, !.replied = TRUE]
       ELSE [IdleCb EXCEPT !.pc = "raised", !.kind = "select", !.page = o, !.raw = raw]]
  /\ UNCHANGED <<objs, child_instances, ended, rendered, obj_disabled, guardVars, closeVars, restVars>>

\* send_message is done and the callback returns.
ReportDone(k) ==
  /\ cb[k].pc = "reporting"
  /\ cb' = [cb EXCEPT ![k] = IdleCb]
  /\ UNCHANGED <<objs, child_instances, ended, rendered, obj_disabled, guardVars, closeVars, restVars>>

\* The host delivers an event of a component of the shown page o that was wrapped at
\* construction and whose function carries the marking f; the wrapper awaits the
\* function.
WrappedPress(k, o, f) ==
  /\ cb[k].pc = "idle"
  /\ \A j \in 1..(k - 1) : cb[j].pc # "idle"
  /\ o \in 1..Len(objs)
  /\ o = rendered
  /\ ~ended[o]
  /\ cb' = [cb EXCEPT ![k] = [IdleCb EXCEPT !.pc = "body", !.kind = "plain",
                                            !.page = o, !.flags = f]]
  /\ UNCHANGED <<objs, child_instances, ended, rendered, obj_disabled, guardVars, closeVars, restVars>>

\* The function returns its response: the wrapper runs the phases not skipped.
BodyReturns(k) ==
  /\ cb[k].pc = "body"
  /\ cb' = [cb EXCEPT ![k] = [@ EXCEPT
              !.pc = "refreshing",
              !.calls = @ \o WrapperCalls(cb[k].page, cb[k].flags),
              !.wrapper = WrapperCalls(cb[k].page, cb[k].flags)]]
  /\ rendered' = RenderedAfter(WrapperCalls(cb[k].page, cb[k].flags))
  /\ UNCHANGED <<objs, child_instances, ended, obj_disabled, guardVars, closeVars, restVars>>

\* A bug the wrapper could have: refresh in a finally clause.
BodyRaisesRefreshes(k) ==
  /\ cb[k].pc = "body"
  /\ cb' = [cb EXCEPT ![k] = [@ EXCEPT
              !.pc = "raised",
              !.calls = @ \o WrapperCalls(cb[k].page, cb[k].flags),
              !.wrapper = WrapperCalls(cb[k].page, cb[k].flags)]]
  /\ rendered' = RenderedAfter(WrapperCalls(cb[k].page, cb[k].flags))
  /\ UNCHANGED <<objs, child_instances, ended, obj_disabled, guardVars, closeVars, restVars>>

\* The function raises: `response = await func(...)` raises in the wrapper, which has
\* no handler, so the lines after it are not reached.
BodyRaises(k) ==
  /\ cb[k].pc = "body"
  /\ cb' = [cb EXCEPT ![k].pc = "raised"]
  /\ UNCHANGED <<objs, child_instances, ended, rendered, obj_disabled, guardVars, closeVars, restVars>>

\* The wrapper's render is done and the wrapped callback returns.
RefreshDone(k) ==
  /\ cb[k].pc = "refreshing"
  /\ cb' = [cb EXCEPT ![k] = IdleCb]
  /\ UNCHANGED <<objs, child_instances, ended, rendered, obj_disabled, guardVars, closeVars, restVars>>

\* The page the message shows ends: one of its callbacks calls View.stop() on it, or
\* the host reports its inactivity.
PageEnds(o) ==
  /\ o \in 1..Len(objs)
  /\ o = rendered
  /\ ~ended[o]
  /\ ended' = [ended EXCEPT ![o] = TRUE]
  /\ UNCHANGED <<objs, child_instances, cb, rendered, obj_disabled, guardVars, closeVars, restVars>>

\* ------------------------------------------------------------ closable.py
\* The closable page is page 1 of Pages; its components are disabled[1].
ClosablePage == 1

\* A close interaction the host has not delivered yet.
IdleCloser ==
  [pc |-> "idle",
   flags |-> [c \in Comps |-> FALSE],   \* item.disabled of the page when close was pressed
   notices |-> 0,                       \* timeout notices sent (followup.send)
   on_close |-> 0,                      \* calls of on_close
   stop |-> 0]                          \* calls of stop

\* A caller that has not awaited the page yet.
IdleAwaiter ==
  [pc |-> "idle",
   on |-> 0,             \* the on_end execution __await__ delegated to (0: _never_generator)
   began |-> FALSE,      \* the page's ending had begun when the caller awaited
   launched |-> FALSE,   \* __await__ itself launched an execution of on_end
   endDone |-> FALSE]    \* an on_end execution had completed when the caller resumed

Runs == 1..Len(onEnd)

\* Some execution of on_end has completed.
SomeEndDone == \E r \in Runs : onEnd[r].st = "done"

\* A bug stop could have: on_end is launched but its task is not recorded.
ClosableStopNoHandle(by) ==
  /\ onEnd' = Append(onEnd, [via |-> "stop", by |-> by, st |-> "running"])
  /\ ending_task' = ending_task
  /\ view' = IF view = "open" THEN "stopped" ELSE view

\* ClosableEditor.stop, called by close interaction `by` (0: called directly):
\* asyncio.create_task(self.on_end()) launches on_end and is recorded, then
\* View.stop() finishes the view.
ClosableStop(by) ==
  /\ onEnd' = Append(onEnd, [via |-> "stop", by |-> by, st |-> "running"])
  /\ ending_task' = Len(onEnd) + 1
  /\ view' = IF view = "open" THEN "stopped" ELSE view

\* The host delivers a press of the Close button: the modal is sent and the callback
\* waits for it (modal.wait()). A finished view receives no events.
ClosePress(j) ==
  /\ closer[j].pc = "idle"
  /\ \A i \in 1..(j - 1) : closer[i].pc # "idle"
  /\ view = "open"
  /\ closer' = [closer EXCEPT ![j] = [@ EXCEPT !.pc = "modal",
                                               !.flags = disabled[ClosablePage]]]
  /\ UNCHANGED <<view, ending_task, onEnd, on_timeout, stops, awaiter, guardVars, hierVars, restVars>>

\* Close is pressed again while the dialog of the press before is still open.
OverlapPress(j) ==
  /\ j > 1 => closer[j - 1].pc = "modal"
  /\ ClosePress(j)

\* A bug _close_interaction could have: no return after the notice, so that the
\* timeout path goes on to on_close and stop.
ModalTimeoutFallsThrough(j) ==
  /\ closer[j].pc = "modal"
  /\ ClosableStop(j)
  /\ closer' = [closer EXCEPT ![j] = [@ EXCEPT !.pc = "timedout", !.notices = @ + 1,
                                               !.on_close = @ + 1, !.stop = @ + 1]]
  /\ UNCHANGED <<on_timeout, stops, awaiter, guardVars, hierVars, restVars>>

\* The modal elapses: modal.wait() returns True, the notice is sent and the callback
\* returns; it is marked to skip update and update_message.
ModalTimeout(j) ==
  /\ closer[j].pc = "modal"
  /\ closer' = [closer EXCEPT ![j] = [@ EXCEPT !.pc = "timedout", !.notices = @ + 1]]
  /\ UNCHANGED <<view, ending_task, onEnd, on_timeout, stops, awaiter, guardVars, hierVars, restVars>>

\* A bug _close_interaction could have: stop() before on_close has completed.
ModalSubmitStopsFirst(j) ==
  /\ closer[j].pc = "modal"
  /\ ClosableStop(j)
  /\ closer' = [closer EXCEPT ![j] = [@ EXCEPT !.pc = "on_close", !.on_close = @ + 1,
                                               !.stop = @ + 1]]
  /\ UNCHANGED <<on_timeout, stops, awaiter, guardVars, hierVars, restVars>>

\* The modal is submitted: modal.wait() returns False and on_close starts.
ModalSubmit(j) ==
  /\ closer[j].pc = "modal"
  /\ closer' = [closer EXCEPT ![j] = [@ EXCEPT !.pc = "on_close", !.on_close = @ + 1]]
  /\ UNCHANGED <<view, ending_task, onEnd, on_timeout, stops, awaiter, guardVars, hierVars, restVars>>

\* on_close has completed: self.stop(), then the callback returns.
OnCloseDone(j) ==
  /\ closer[j].pc = "on_close"
  /\ ClosableStop(j)
  /\ closer' = [closer EXCEPT ![j] = [@ EXCEPT !.pc = "closed", !.stop = @ + 1]]
  /\ UNCHANGED <<on_timeout, stops, awaiter, guardVars, hierVars, restVars>>

\* stop() is called on the page from outside the close interaction.
StopCall ==
  /\ stops < MaxStops
  /\ stops' = stops + 1
  /\ ClosableStop(0)
  /\ UNCHANGED <<on_timeout, closer, awaiter, guardVars, hierVars, restVars>>

\* The host reports the page's inactivity: the view is finished and on_timeout is
\* scheduled. A finished view does not time out.
PageTimeout ==
  /\ view = "open"
  /\ on_timeout.pc = "none"
  /\ view' = "timedout"
  /\ on_timeout' = [pc |-> "scheduled", run |-> 0]
  /\ UNCHANGED <<ending_task, onEnd, closer, stops, awaiter, guardVars, hierVars, restVars>>

\* on_timeout starts: await self.on_end(), run in the coroutine itself.
TimeoutRuns ==
  /\ on_timeout.pc = "scheduled"
  /\ onEnd' = Append(onEnd, [via |-> "timeout", by |-> 0, st |-> "running"])
  /\ on_timeout' = [pc |-> "on_end", run |-> Len(onEnd) + 1]
  /\ UNCHANGED <<view, ending_task, closer, stops, awaiter, guardVars, hierVars, restVars>>

\* A bug on_timeout could have: on_end launched as a task and not awaited.
TimeoutSuperEarly ==
  /\ on_timeout.pc = "on_end"
  /\ on_timeout' = [on_timeout EXCEPT !.pc = "super"]
  /\ UNCHANGED <<view, ending_task, onEnd, closer, stops, awaiter, guardVars, hierVars, restVars>>

\* on_end has returned to on_timeout: return await super().on_timeout().
TimeoutSuper ==
  /\ on_timeout.pc = "on_end"
  /\ onEnd[on_timeout.run].st = "done"
  /\ on_timeout' = [on_timeout EXCEPT !.pc = "super"]
  /\ UNCHANGED <<view, ending_task, onEnd, closer, stops, awaiter, guardVars, hierVars, restVars>>

\* An execution of on_end completes.
OnEndFinish(r) ==
  /\ r \in Runs
  /\ onEnd[r].st = "running"
  /\ onEnd' = [onEnd EXCEPT ![r].st = "done"]
  /\ UNCHANGED <<view, ending_task, on_timeout, closer, stops, awaiter, guardVars, hierVars, restVars>>

\* A bug __await__ could have: suspend until a stop records a task.
AwaitPageSuspends(a) ==
  /\ awaiter[a].pc = "idle"
  /\ \A i \in 1..(a - 1) : awaiter[i].pc # "idle"
  /\ awaiter' = [awaiter EXCEPT ![a] =
       [@ EXCEPT !.pc = "waiting", !.on = ending_task,
                 !.began = (view # "open" \/ Len(onEnd) > 0),
                 !.launched = FALSE]]
  /\ UNCHANGED <<view, ending_task, onEnd, on_timeout, closer, stops, guardVars, hierVars, restVars>>

\* await page: __await__ returns the recorded task's __await__, on which the caller
\* suspends unless the task is done; with no task recorded it returns
\* _never_generator(), an empty generator: the caller goes on at once.
AwaitPage(a) ==
  /\ awaiter[a].pc = "idle"
  /\ \A i \in 1..(a - 1) : awaiter[i].pc # "idle"
  /\ awaiter' = [awaiter EXCEPT ![a] =
       [@ EXCEPT !.pc = IF ending_task # 0 /\ onEnd[ending_task].st # "done"
                        THEN "waiting" ELSE "resumed",
                 !.on = ending_task,
                 !.began = (view # "open" \/ Len(onEnd) > 0),
                 !.launched = FALSE,
                 !.endDone = SomeEndDone]]
  /\ UNCHANGED <<view, ending_task, onEnd, on_timeout, closer, stops, guardVars, hierVars, restVars>>

\* The awaited task is done: the caller resumes.
AwaitResume(a) ==
  /\ awaiter[a].pc = "waiting"
  /\ awaiter[a].on # 0
  /\ onEnd[awaiter[a].on].st = "done"
  /\ awaiter' = [awaiter EXCEPT ![a] = [@ EXCEPT !.pc = "resumed", !.endDone = SomeEndDone]]
  /\ UNCHANGED <<view, ending_task, onEnd, on_timeout, closer, stops, guardVars, hierVars, restVars>>

\* ----------------------------------------- base.py, hierarchy.py: render target
\* A page as far as rendering goes: type(self).resets_message_content, self.message
\* (0: None) and self.embed.
PgPage(reset, message, embed) ==
  [reset |-> reset, message |-> message, embed |-> embed,
   disabled |-> [c \in Comps |-> FALSE]]    \* item.disabled of the page's components

\* No operation yet.
PgNone ==
  [op |-> "none", page |-> 0, caller |-> 0,
   given |-> "",         \* switch was given a "type" or an "instance"
   warned |-> FALSE,     \* LOGGER.warning was called
   raised |-> FALSE,     \* the operation raised
   edits |-> <<>>,       \* the message.edit calls made: <<message, content, embed, view>>
   made |-> 0,           \* pages constructed
   ret |-> 0,            \* the page returned (0: None)
   state |-> FALSE,      \* the argument of set_component_state
   shown |-> <<>>,       \* the components' flags when set_component_state rendered
   before |-> <<>>]      \* the pages before the operation

\* A bug update_message could have: no test for the unbound target.
UpdateMessageUnguarded(objects, p) ==
  IF objects[p].message = 0
  THEN [warned |-> FALSE, raised |-> TRUE, edits |-> <<>>]
  ELSE [warned |-> FALSE, raised |-> FALSE,
        edits |-> << <<objects[p].message,
                       IF objects[p].reset THEN "None" ELSE "MISSING",
                       objects[p].embed, p>> >>]

\* update_message of page p among the pages `objects`: with no message, a warning and
\* return; else one message.edit(content=None if the type resets the content else
\* MISSING, embed=self.embed, view=self).
UpdateMessage(objects, p) ==
  IF objects[p].message = 0
  THEN [warned |-> TRUE, raised |-> FALSE, edits |-> <<>>]
  ELSE [warned |-> FALSE, raised |-> FALSE,
        edits |-> << <<objects[p].message,
                       IF objects[p].reset THEN "None" ELSE "MISSING",
                       objects[p].embed, p>> >>]

\* A bug switch could have: a page of the given type is constructed in every case.
SwitchObjectsAlways(caller, isType, reset, target) ==
  Append(pg.objs, PgPage(reset, pg.objs[caller].message, pg.objs[caller].embed))

\* The pages after switch(new_editor) on page `caller`: a type (here its reset flag)
\* is called with (self.message, self.embed); an instance is used as it is.
SwitchObjects(caller, isType, reset, target) ==
  IF isType
  THEN Append(pg.objs, PgPage(reset, pg.objs[caller].message, pg.objs[caller].embed))
  ELSE pg.objs

\* editor_object of switch.
SwitchObject(caller, isType, reset, target) ==
  IF isType THEN Len(pg.objs) + 1 ELSE target

\* A caller invokes update_message on page p.
PgUpdateMessage(p) ==
  /\ p \in 1..Len(pg.objs)
  /\ LET r == UpdateMessage(pg.objs, p) IN
     pg' = [pg EXCEPT !.last = [PgNone EXCEPT !.op = "update_message", !.page = p,
                                              !.warned = r.warned, !.raised = r.raised,
                                              !.edits = r.edits, !.before = pg.objs]]
  /\ UNCHANGED <<guardVars, hierVars, closeVars, decorator, utilVars>>

\* switch(new_editor) on page `caller`, new_editor a page type or the instance
\* `target`: update and update_message of editor_object, which is returned.
PgSwitch(caller, isType, reset, target) ==
  /\ caller \in 1..Len(pg.objs)
  /\ IF isType THEN Len(pg.objs) < MaxPgObjs /\ target = 0
               ELSE target \in 1..Len(pg.objs) /\ ~reset
  /\ LET objects == SwitchObjects(caller, isType, reset, target)
         e == SwitchObject(caller, isType, reset, target)
         r == UpdateMessage(objects, e)
     IN pg' = [objs |-> objects,
               last |-> [PgNone EXCEPT !.op = "switch", !.page = e, !.caller = caller,
                                       !.given = IF isType THEN "type" ELSE "instance",
                                       !.warned = r.warned, !.raised = r.raised,
                                       !.edits = r.edits,
                                       !.made = Len(objects) - Len(pg.objs),
                                       !.ret = e, !.before = pg.objs]]
  /\ UNCHANGED <<guardVars, hierVars, closeVars, decorator, utilVars>>

\* A bug set_component_state could have: the components are disabled whatever the state.
SetFlagsDisables(flags, state) == [c \in DOMAIN flags |-> TRUE]

\* for item in self.children: item.disabled = state
SetFlags(flags, state) == [c \in DOMAIN flags |-> state]

\* A caller invokes set_component_state(state) on page p: the loop over the children,
\* then update_message.
PgSetComponentState(p, state) ==
  /\ p \in 1..Len(pg.objs)
  /\ LET objects == [pg.objs EXCEPT ![p].disabled = SetFlags(@, state)]
         r == UpdateMessage(objects, p)
     IN pg' = [objs |-> objects,
               last |-> [PgNone EXCEPT !.op = "set_component_state", !.page = p,
                                       !.state = state, !.shown = objects[p].disabled,
                                       !.warned = r.warned, !.raised = r.raised,
                                       !.edits = r.edits, !.before = pg.objs]]
  /\ UNCHANGED <<guardVars, hierVars, closeVars, decorator, utilVars>>

\* No page of this part exists.
PgStart == pg = [objs |-> <<>>, last |-> PgNone]

\* Two pages constructed by the session's driver, each with or without a message.
PgInit ==
  \E r1, r2 \in BOOLEAN, m1, m2 \in 0..NumMsgs, e1, e2 \in 1..NumEmbeds :
    pg = [objs |-> <<PgPage(r1, m1, e1), PgPage(r2, m2, e2)>>, last |-> PgNone]

\* Two pages, the first with components its class declares disabled.
PgFlagsInit ==
  \E r \in BOOLEAN, m \in 0..NumMsgs, e \in 1..NumEmbeds, f \in [Comps -> BOOLEAN] :
    pg = [objs |-> <<[PgPage(r, m, e) EXCEPT !.disabled = f], PgPage(FALSE, NumMsgs, 1)>>,
          last |-> PgNone]

\* ------------------------------------------------------- WebhookPool (webhook_pool.py)
Channels == 1..NumChannels
Guilds == 1..NumGuilds
GuildOf(c) == ((c - 1) % NumGuilds) + 1      \* channel.guild

\* What a dictionary of the pool is keyed or probed with: a channel object, or the
\* integer channel.id. A channel object and an integer are never equal.
ChannelKey(c) == [kind |-> "channel", id |-> c]
IdKey(c) == [kind |-> "int", id |-> c]

EmptyDict == [k \in {} |-> 0]
DictSet(d, k, v) == [x \in DOMAIN d \cup {k} |-> IF x = k THEN v ELSE d[x]]

PoolNone == [op |-> "none", ch |-> 0, cached |-> FALSE, was |-> 0,
             fetches |-> 0, creates |-> 0, ret |-> 0]

\* get's test: channel.id not in guild_pool.keys().
ProbeOf(c) == IdKey(c)

\* _fetch_webhook: the bot-owned incoming webhook among channel.webhooks(), or None (0).
FetchWebhook(c) == pool.hooks[c]

\* get(channel): the whole coroutine.
PoolGet(c) ==
  LET g == GuildOf(c)
      p1 == IF g \in DOMAIN pool.cache THEN pool.cache
            ELSE DictSet(pool.cache, g, EmptyDict)          \* setdefault(guild, {})
      guild_pool == p1[g]
      miss == ProbeOf(c) \notin DOMAIN guild_pool
      found == FetchWebhook(c)
      create == miss /\ found = 0
      webhook == IF create THEN pool.made + 1 ELSE found
      gp2 == IF miss THEN DictSet(guild_pool, ChannelKey(c), webhook) ELSE guild_pool
      had == g \in DOMAIN pool.cache /\ ChannelKey(c) \in DOMAIN pool.cache[g]
  IN  /\ create => pool.made < MaxHooks
      /\ ChannelKey(c) \in DOMAIN gp2     \* else guild_pool[channel] raises KeyError
      /\ pool' = [cache |-> DictSet(p1, g, gp2),
                  hooks |-> IF create THEN [pool.hooks EXCEPT ![c] = webhook]
                            ELSE pool.hooks,
                  made |-> IF create THEN pool.made + 1 ELSE pool.made,
                  last |-> [op |-> "get", ch |-> c, cached |-> had,
                            was |-> IF had THEN pool.cache[g][ChannelKey(c)] ELSE 0,
                            fetches |-> IF miss THEN 1 ELSE 0,
                            creates |-> IF create THEN 1 ELSE 0,
                            ret |-> gp2[ChannelKey(c)]]]
      /\ UNCHANGED <<guardVars, hierVars, closeVars, pg, decorator, ll, cv, sf>>

\* clear(): self.pool.clear(); no webhook is deleted.
PoolClear ==
  /\ pool.cache # EmptyDict
  /\ pool' = [pool EXCEPT !.cache = EmptyDict, !.last = [PoolNone EXCEPT !.op = "clear"]]
  /\ UNCHANGED <<guardVars, hierVars, closeVars, pg, decorator, ll, cv, sf>>

\* Somebody deletes the bot's webhook of a channel in Discord.
HookDeleted(c) ==
  /\ pool.hooks[c] # 0
  /\ pool' = [pool EXCEPT !.hooks[c] = 0, !.last = [PoolNone EXCEPT !.op = "deleted", !.ch = c]]
  /\ UNCHANGED <<guardVars, hierVars, closeVars, pg, decorator, ll, cv, sf>>

\* WebhookPool(bot): an empty pool; no channel has a webhook of the bot.
PoolStart ==
  pool = [cache |-> EmptyDict, hooks |-> [c \in Channels |-> 0], made |-> 0,
          last |-> PoolNone]

\* ------------------------------------------------------- ConfirmationView (confirmation_view.py)
Presses == 1..MaxPress
ConfAwaiters == 1..MaxConfAwait
Buttons == {"confirm", "cancel"}

\* A bug the callbacks could have: Cancel sets the result of Confirm.
ResultOfConfirm(b) == "True"

\* What the callback of a button sets as the future's result.
ResultOf(b) == IF b = "confirm" THEN "True" ELSE "False"

IdlePress == [pc |-> "idle", button |-> "none"]
IdleConfAwaiter == [pc |-> "idle", outcome |-> "none", waited |-> FALSE]

ConfRest == UNCHANGED <<guardVars, hierVars, closeVars, pg, decorator, ll, pool, sf>>

\* The host delivers a press of Confirm or Cancel to the open view: the callback starts
\* and suspends in interaction.response.defer().
ConfPress(k, b) ==
  /\ cv.view = "open"
  /\ cv.press[k].pc = "idle"
  /\ \A i \in 1..(k - 1) : cv.press[i].pc # "idle"
  /\ cv' = [cv EXCEPT !.press[k] = [pc |-> "defer", button |-> b]]
  /\ ConfRest

\* defer() returns: set_result and stop(). On a future that is already done set_result
\* raises InvalidStateError and stop() is not reached. stop() on a finished view
\* changes nothing.
ConfDeferReturns(k) ==
  /\ cv.press[k].pc = "defer"
  /\ IF cv.future = "pending"
     THEN cv' = [cv EXCEPT !.future = ResultOf(cv.press[k].button),
                           !.view = IF @ = "open" THEN "stopped" ELSE @,
                           !.press[k].pc = "done"]
     ELSE cv' = [cv EXCEPT !.press[k].pc = "raised"]
  /\ ConfRest

\* defer() raises (the request to Discord fails): the callback ends there.
ConfDeferRaises(k) ==
  /\ cv.press[k].pc = "defer"
  /\ cv' = [cv EXCEPT !.press[k].pc = "failed"]
  /\ ConfRest

\* The host reports the view's inactivity: the view is finished, on_timeout is scheduled.
ConfTimeout ==
  /\ cv.view = "open"
  /\ cv' = [cv EXCEPT !.view = "timedout", !.on_timeout = "scheduled"]
  /\ ConfRest

\* on_timeout runs: set_exception(TimeoutError), which raises InvalidStateError on a
\* future that is already done, then super().on_timeout().
ConfOnTimeout ==
  /\ cv.on_timeout = "scheduled"
  /\ IF cv.future = "pending"
     THEN cv' = [cv EXCEPT !.future = "TimeoutError", !.on_timeout = "done"]
     ELSE cv' = [cv EXCEPT !.on_timeout = "raised"]
  /\ ConfRest

\* await view: the future's __await__; the caller suspends while the future is pending.
ConfAwait(a) ==
  /\ cv.aw[a].pc = "idle"
  /\ \A i \in 1..(a - 1) : cv.aw[i].pc # "idle"
  /\ cv' = [cv EXCEPT !.aw[a] =
       IF cv.future = "pending"
       THEN [pc |-> "waiting", outcome |-> "none", waited |-> TRUE]
       ELSE [pc |-> "resumed", outcome |-> cv.future, waited |-> FALSE]]
  /\ ConfRest

\* The future is done: a waiting caller resumes with its result or its exception.
ConfResume(a) ==
  /\ cv.aw[a].pc = "waiting"
  /\ cv.future # "pending"
  /\ cv' = [cv EXCEPT !.aw[a].pc = "resumed", !.aw[a].outcome = cv.future]
  /\ ConfRest

\* ConfirmationView(): a pending future, the view open, nothing delivered.
ConfStart ==
  cv = [future |-> "pending", view |-> "open", on_timeout |-> "none",
        press |-> [k \in Presses |-> IdlePress],
        aw |-> [a \in ConfAwaiters |-> IdleConfAwaiter]]

\* ------------------------------------------------------- snowflakes (snowflakes.py)
\* Python integers have no width: an integer is modelled by the set of the positions
\* of its one bits.
Bits(n) == {b \in 0..n : (n \div 2^b) % 2 = 1}
Shl(S, k) == {b + k : b \in S}                      \* S << k
Shr(S, k) == {b - k : b \in {x \in S : x >= k}}     \* S >> k
And(S, M) == S \cap M                               \* S & M

WorkerMask == 17..21       \* 0x3E0000
ProcessMask == 12..16      \* 0x1F000
IncrementMask == 0..11     \* 0xFFF

\* to_int: `+` binds tighter than `<<`, and `<<` groups from the left, so the
\* expression is ((timestamp << (22 + worker_id)) << (17 + process_id))
\* << (12 + increment).
ToInt(raw) ==
  Shl(Shl(Shl(Bits(raw.timestamp), 22 + raw.worker_id), 17 + raw.process_id),
      12 + raw.increment)

\* from_int: the four fields, as integers (sets of bits).
FromInt(S) ==
  [timestamp |-> Shr(S, 22),
   worker_id |-> Shr(And(S, WorkerMask), 17),
   process_id |-> Shr(And(S, ProcessMask), 12),
   increment |-> And(S, IncrementMask)]

\* The fields of a raw snowflake as integers.
RawBits(raw) ==
  [timestamp |-> Bits(raw.timestamp), worker_id |-> Bits(raw.worker_id),
   process_id |-> Bits(raw.process_id), increment |-> Bits(raw.increment)]

RawSnowflakes ==
  [timestamp : 0..MaxTimestamp, worker_id : 0..MaxWorker,
   process_id : 0..MaxProcess, increment : 0..MaxIncrement]

SnowRest == UNCHANGED <<guardVars, hierVars, closeVars, pg, decorator, ll, pool, cv>>

\* raw.to_int()
SnowToInt ==
  /\ sf.st = "raw"
  /\ sf' = [sf EXCEPT !.st = "int", !.int = ToInt(sf.raw)]
  /\ SnowRest

\* _SnowflakeRaw.from_int(snowflake)
SnowFromInt ==
  /\ sf.st = "int"
  /\ sf' = [sf EXCEPT !.st = "decoded", !.back = FromInt(sf.int)]
  /\ SnowRest

\* The raw snowflake of this part at rest: all fields zero.
SnowStart ==
  sf = [raw |-> [timestamp |-> 0, worker_id |-> 0, process_id |-> 0, increment |-> 0],
        st |-> "raw", int |-> {}, back |-> RawBits([timestamp |-> 0, worker_id |-> 0,
                                                    process_id |-> 0, increment |-> 0])]

SnowInit ==
  \E raw \in RawSnowflakes :
    sf = [raw |-> raw, st |-> "raw", int |-> {}, back |-> RawBits(raw)]

\* ------------------------------------------------------- LimitedList (limited_list.py)
Elems == 1..NumElems
SeqsUpTo(n) == UNION {[1..k -> Elems] : k \in 0..n}

\* What a call on the list did: the operation, its argument, the list before it, and
\* whether it raised RuntimeError.
ListNone == [op |-> "none", arg |-> <<>>, before |-> <<>>, raised |-> FALSE]

\* append: raises when len(self) >= self._size, else list.append.
LLAppend(items, size, x) ==
  IF Len(items) >= size
  THEN [items |-> items, raised |-> TRUE]
  ELSE [items |-> Append(items, x), raised |-> FALSE]

\* extend: self.append(e) for every e of the iterable, in order; the first append that
\* raises ends the loop and what was appended before it stays.
RECURSIVE LLExtend(_, _, _)
LLExtend(items, size, xs) ==
  IF xs = <<>> THEN [items |-> items, raised |-> FALSE]
  ELSE LET r == LLAppend(items, size, Head(xs))
       IN  IF r.raised THEN r ELSE LLExtend(r.items, size, Tail(xs))

\* extend_safely: raises when len(self) + len(iterable) <= self.size, else list.extend.
LLExtendSafely(items, size, xs) ==
  IF Len(items) + Len(xs) <= size
  THEN [items |-> items, raised |-> TRUE]
  ELSE [items |-> items \o xs, raised |-> FALSE]

ListDid(op, arg, r) ==
  ll' = [ll EXCEPT !.items = r.items,
                   !.last = [op |-> op, arg |-> arg, before |-> ll.items,
                             raised |-> r.raised]]

ListRest == UNCHANGED <<guardVars, hierVars, closeVars, pg, decorator, pool, cv, sf>>

ListAppend(x) ==
  /\ Len(ll.items) < MaxLen
  /\ ListDid("append", <<x>>, LLAppend(ll.items, ll.size, x))
  /\ ListRest

ListExtend(xs) ==
  /\ Len(ll.items) + Len(xs) <= MaxLen
  /\ ListDid("extend", xs, LLExtend(ll.items, ll.size, xs))
  /\ ListRest

ListExtendSafely(xs) ==
  /\ Len(ll.items) + Len(xs) <= MaxLen
  /\ ListDid("extend_safely", xs, LLExtendSafely(ll.items, ll.size, xs))
  /\ ListRest

\* No list of this part exists: LimitedList() with size 0.
ListStart == ll = [items |-> <<>>, size |-> 0, last |-> ListNone]

\* LimitedList(iterable, size=n) with at most n elements in the iterable.
ListInit ==
  \E n \in 0..MaxSize : \E init \in SeqsUpTo(n) :
    ll = [items |-> init, size |-> n, last |-> ListNone]

UtilStart == ListStart /\ PoolStart /\ ConfStart /\ SnowStart

\* ------------------------------------------------------- specifications
\* The hierarchy at rest: the root menu exists, nothing cached, nothing delivered.
HierStart ==
  /\ objs = << [type |-> 0, parent |-> 0, seen |-> [c \in Comps |-> FALSE],
                options |-> MenuOptions(0)] >>
  /\ child_instances = [o \in ObjIds |-> [t \in Types |-> 0]]
  /\ ended = [o \in ObjIds |-> FALSE]
  /\ cb = [k \in Cbs |-> IdleCb]
  /\ rendered = 1     \* the session's driver has sent the root page

\* Menu pages as their constructors leave them: every component enabled.
FlagsStart == obj_disabled = [o \in ObjIds |-> [c \in Comps |-> FALSE]]

\* The guard at rest, on pages with every component enabled.
GuardStart ==
  /\ disabled = [p \in Pages |-> [c \in Comps |-> FALSE]]
  /\ disabled_items = <<>>
  /\ editor = 0
  /\ inv = [i \in Invs |-> IdleInv]

\* The closable page at rest: open, no on_end launched, nobody waiting.
CloseStart ==
  /\ view = "open"
  /\ ending_task = 0
  /\ onEnd = <<>>
  /\ on_timeout = [pc |-> "none", run |-> 0]
  /\ closer = [j \in Closers |-> IdleCloser]
  /\ stops = 0
  /\ awaiter = [a \in Awaiters |-> IdleAwaiter]

\* The parts a specification does not use, at rest.
RestStart == PgStart /\ decorator = NoDecorator /\ UtilStart

HierInit ==
  /\ HierStart
  \* the page classes of a tree may declare components disabled: the same flags on each
  /\ \E f \in [Comps -> BOOLEAN] : obj_disabled = [o \in ObjIds |-> f]
  /\ GuardStart
  /\ CloseStart
  /\ RestStart

HierNext ==
  \/ \E k \in Cbs, o \in ObjIds, v \in Types : Press(k, "select", o, v)
  \/ \E k \in Cbs, o \in ObjIds : Press(k, "back", o, 0)
  \/ \E k \in Cbs, o \in ObjIds : Press(k, "top", o, 0)
  \/ \E k \in Cbs, o \in ObjIds, t \in Types : GetChildPress(k, o, t)
  \/ \E k \in Cbs : CallbackRaised(k)
  \/ \E k \in Cbs : SwitchStart(k)
  \/ \E k \in Cbs : SwitchReturn(k)
  \/ \E k \in Cbs : RefreshDone(k)

\* Navigation in the menu tree, no page ending.
SpecHier == HierInit /\ [][HierNext]_vars

LifeNext ==
  \/ HierNext
  \/ \E o \in ObjIds : PageEnds(o)
  \/ \E k \in Cbs, o \in ObjIds, raw \in RawValues : SelectUnmapped(k, o, raw)
  \/ \E k \in Cbs : ReportDone(k)

\* Navigation in the menu tree with pages that end and selections the menu cannot map.
SpecLife == HierInit /\ [][LifeNext]_vars

WrapNext ==
  \/ \E k \in Cbs, o \in ObjIds, f \in FlagSets : WrappedPress(k, o, f)
  \/ \E k \in Cbs : BodyReturns(k)
  \/ \E k \in Cbs : BodyRaises(k)
  \/ \E k \in Cbs, o \in ObjIds, t \in Types : GetChildPress(k, o, t)
  \/ \E k \in Cbs : CallbackRaised(k)
  \/ \E k \in Cbs : RefreshDone(k)

\* The callbacks of one page that were wrapped at its construction.
SpecWrap == HierInit /\ [][WrapNext]_vars

CloseInit == CloseStart /\ GuardStart /\ HierStart /\ FlagsStart /\ RestStart

CloseNext ==
  \/ \E j \in 1..MaxClose : ClosePress(j)
  \/ \E j \in Closers : ModalTimeout(j)
  \/ \E j \in Closers : ModalSubmit(j)
  \/ \E j \in Closers : OnCloseDone(j)
  \/ StopCall
  \/ PageTimeout
  \/ TimeoutRuns
  \/ TimeoutSuper
  \/ \E r \in 1..(MaxClose + MaxStops + 1) : OnEndFinish(r)
  \/ \E a \in Awaiters : AwaitPage(a)
  \/ \E a \in Awaiters : AwaitResume(a)

\* The closable page: close interactions, stop, timeout, callers awaiting it.
SpecClose == CloseInit /\ [][CloseNext]_vars

\* The executions of on_end there can be.
RunIds == 1..(MaxClose + MaxStops + 1)

\* on_end terminates, and the event loop runs every task that is ready: an on_end
\* execution that can complete does, a caller whose awaited task is done resumes.
CloseFairness ==
  WF_vars((\E r \in RunIds : OnEndFinish(r)) \/ (\E a \in Awaiters : AwaitResume(a)))

\* What happens to a page that ends by stop, not by the host's timeout.
StopNext ==
  \/ \E j \in 1..MaxClose : ClosePress(j)
  \/ \E j \in Closers : ModalTimeout(j)
  \/ \E j \in Closers : ModalSubmit(j)
  \/ \E j \in Closers : OnCloseDone(j)
  \/ StopCall
  \/ \E r \in RunIds : OnEndFinish(r)
  \/ \E a \in Awaiters : AwaitPage(a)
  \/ \E a \in Awaiters : AwaitResume(a)

\* The closable page as its class builds it: the components all enabled, or all
\* declared disabled (what the Close button records on a press).
StopInit ==
  /\ \E b \in BOOLEAN : disabled = [p \in Pages |-> [c \in Comps |-> b]]
  /\ disabled_items = <<>>
  /\ editor = 0
  /\ inv = [i \in Invs |-> IdleInv]
  /\ CloseStart /\ HierStart /\ FlagsStart /\ RestStart

\* The closable page ended by stop, under a fair event loop.
SpecCloseFair == StopInit /\ [][StopNext]_vars /\ CloseFairness

OverlapNext ==
  \/ \E j \in Closers : OverlapPress(j)
  \/ \E j \in Closers : ModalTimeout(j)
  \/ \E j \in Closers : ModalSubmit(j)
  \/ \E j \in Closers : OnCloseDone(j)
  \/ \E r \in Closers : OnEndFinish(r)
  \/ \E a \in Awaiters : AwaitPage(a)
  \/ \E a \in Awaiters : AwaitResume(a)

\* Close interactions that overlap on one closable page.
SpecOverlap == StopInit /\ [][OverlapNext]_vars

GuardInit ==
  \* pages of one type are built by one constructor: the same flags on each
  /\ \E f \in [Comps -> BOOLEAN] : disabled = [p \in Pages |-> f]
  /\ disabled_items = <<>>
  /\ editor = 0
  /\ inv = [i \in Invs |-> IdleInv]
  /\ HierStart
  /\ FlagsStart
  /\ CloseStart
  /\ RestStart

GuardNext ==
  \/ \E f \in FuncKinds : GuardConstruct(f)
  \/ \E i \in Invs, p \in Pages : GuardCall(i, p)
  \/ \E i \in Invs : GuardEntered(i)
  \/ \E i \in Invs : GuardEntryFails(i)
  \/ \E i \in Invs : GuardBodyReturns(i)
  \/ \E i \in Invs : GuardBodyRaises(i)
  \/ \E i \in Invs : GuardExited(i)

SpecGuard == GuardInit /\ [][GuardNext]_vars

PageInit ==
  /\ PgInit /\ decorator = NoDecorator /\ UtilStart
  /\ GuardStart /\ HierStart /\ FlagsStart /\ CloseStart

PageNext ==
  \/ \E p \in 1..MaxPgObjs : PgUpdateMessage(p)
  \/ \E c, t \in 1..MaxPgObjs : PgSwitch(c, FALSE, FALSE, t)
  \/ \E c \in 1..MaxPgObjs, r \in BOOLEAN : PgSwitch(c, TRUE, r, 0)

\* Pages rendering into their message, and switches between them.
SpecPage == PageInit /\ [][PageNext]_vars

StateInit ==
  /\ PgFlagsInit /\ decorator = NoDecorator /\ UtilStart
  /\ GuardStart /\ HierStart /\ FlagsStart /\ CloseStart

StateNext ==
  \/ \E p \in 1..MaxPgObjs, state \in BOOLEAN : PgSetComponentState(p, state)
  \/ \E p \in 1..MaxPgObjs : PgUpdateMessage(p)

\* Pages whose components are set enabled or disabled in bulk.
SpecState == StateInit /\ [][StateNext]_vars

ListSpecInit ==
  /\ ListInit /\ PoolStart /\ ConfStart /\ SnowStart /\ PgStart /\ decorator = NoDecorator
  /\ GuardStart /\ HierStart /\ FlagsStart /\ CloseStart

ListNext ==
  \/ \E x \in Elems : ListAppend(x)
  \/ \E xs \in SeqsUpTo(MaxExt) : ListExtend(xs)
  \/ \E xs \in SeqsUpTo(MaxExt) : ListExtendSafely(xs)

SpecList == ListSpecInit /\ [][ListNext]_vars

PoolNext ==
  \/ \E c \in Channels : PoolGet(c)
  \/ PoolClear
  \/ \E c \in Channels : HookDeleted(c)

PoolInit == RestStart /\ GuardStart /\ HierStart /\ FlagsStart /\ CloseStart

SpecPool == PoolInit /\ [][PoolNext]_vars

ConfInit == RestStart /\ GuardStart /\ HierStart /\ FlagsStart /\ CloseStart

ConfNext ==
  \/ \E k \in Presses, b \in Buttons : ConfPress(k, b)
  \/ \E k \in Presses : ConfDeferReturns(k)
  \/ \E k \in Presses : ConfDeferRaises(k)
  \/ ConfTimeout
  \/ ConfOnTimeout
  \/ \E a \in ConfAwaiters : ConfAwait(a)
  \/ \E a \in ConfAwaiters : ConfResume(a)

SpecConf == ConfInit /\ [][ConfNext]_vars

SnowSpecInit ==
  /\ SnowInit /\ ListStart /\ PoolStart /\ ConfStart /\ PgStart /\ decorator = NoDecorator
  /\ GuardStart /\ HierStart /\ FlagsStart /\ CloseStart

SnowNext ==
  \/ SnowToInt
  \/ SnowFromInt

SpecSnow == SnowSpecInit /\ [][SnowNext]_vars

\* An invocation whose guarded region has been left (the loop of __aexit__ has run).
Left(i) == inv[i].pc \in {"exiting", "returned", "raised"}

\* C3: a guarded callback entered on a page with some component enabled (A) and the
\* others already disabled (B) leaves every flag of the page as it was at entry: A is
\* enabled again and B, disabled at entry, is not re-enabled.
C3_GuardRestoresEntryState ==
  \A i \in Invs :
    (Left(i) /\ \E c \in Comps : ~inv[i].snap[c]) => inv[i].post = inv[i].snap

\* C3 witness: an invocation entered with {A enabled, B disabled} has returned.
C3_Witness ==
  \E i \in Invs : \E a, b \in Comps :
    /\ inv[i].pc = "returned"
    /\ ~inv[i].snap[a] /\ inv[i].snap[b]
    /\ ~inv[i].post[a] /\ inv[i].post[b]

\* C4: when the guarded function raises, the release step has still run: the
\* components the invocation disabled are enabled again, the remembered list is
\* empty, update_message has been called a second time, and the invocation ends by
\* the error (it never returns normally).
C4_ReleaseOnRaise ==
  \A i \in Invs :
    inv[i].exc =>
      /\ inv[i].pc \in {"exiting", "raised"}
      /\ \A c \in Comps : ~inv[i].snap[c] => ~inv[i].post[c]
      /\ inv[i].postItems = <<>>
      /\ Len(inv[i].renders) = 2

\* C4 witness: an invocation that disabled a component has ended by the error of its
\* guarded function, with that component enabled again.
C4_Witness ==
  \E i \in Invs : \E c \in Comps :
    inv[i].pc = "raised" /\ inv[i].exc /\ ~inv[i].snap[c] /\ ~inv[i].post[c]

\* The target of the switch call a callback is in, or has just made.
SwitchTarget(k) == cb[k].switches[Len(cb[k].switches)]

\* C1: two get_child calls on one parent for one declared type return the identical
\* object, and a parent never has two constructed children of one type.
C1_GetChildIdentical ==
  /\ \A k1, k2 \in Cbs :
       (/\ cb[k1].child # 0 /\ cb[k2].child # 0
        /\ cb[k1].page = cb[k2].page /\ cb[k1].value = cb[k2].value)
       => cb[k1].child = cb[k2].child
  /\ \A o1, o2 \in 1..Len(objs) :
       (/\ objs[o1].parent # 0
        /\ objs[o1].parent = objs[o2].parent
        /\ objs[o1].type = objs[o2].type)
       => o1 = o2

\* C2: a switch call returns to its caller only when the page it switched to has
\* ended.
C2_SwitchJoins ==
  [][\A k \in Cbs :
       (cb[k].pc = "rendering" /\ cb'[k].pc # "rendering") => ended[SwitchTarget(k)]]_vars

\* C10: "back to top" makes exactly one switch call, and its target is the root object
\* of the session (object 1, the one ancestor that is not a ChildPage), whatever the
\* depth of the submenu; so from C in root -> A -> B -> C there is no switch to A or B.
C10_BackToTopOneHop ==
  \A k \in Cbs :
    (cb[k].kind = "top" /\ cb[k].pc \in {"rendering", "refreshing"})
    => /\ cb[k].switches = <<1>>
       /\ ~IsChildPage(objs[1].type)
       /\ \A j \in 1..Len(cb[k].calls) : cb[k].calls[j][2] \in {1, cb[k].page}

\* C10 witness: "back to top" pressed on a page of depth 3 (C, child of B, child of A,
\* child of the root) has made its switch, to the root.
C10_Witness ==
  \E k \in Cbs :
    /\ cb[k].kind = "top" /\ cb[k].pc = "refreshing"
    /\ objs[cb[k].page].type = 3
    /\ objs[objs[objs[cb[k].page].parent].parent].parent = 1
    /\ cb[k].switches = <<1>>

\* C5: confirm path. The on_end a confirmed close launches is launched only when that
\* close's on_close has completed, and a caller suspended on the page resumes only
\* when the on_end execution it waits for has completed.
C5_ConfirmPathOrder ==
  /\ \A r \in Runs :
       onEnd[r].by # 0 =>
         /\ closer[onEnd[r].by].pc = "closed"
         /\ closer[onEnd[r].by].on_close = 1
  /\ \A j \in Closers : closer[j].pc = "on_close" => closer[j].stop = 0
  /\ \A a \in Awaiters :
       (awaiter[a].pc = "resumed" /\ awaiter[a].on # 0) => onEnd[awaiter[a].on].st = "done"

\* C5 witness: a close was confirmed, its on_end has completed, and a caller that was
\* waiting for that on_end has resumed.
C5_Witness ==
  \E j \in Closers, a \in Awaiters :
    /\ closer[j].pc = "closed"
    /\ awaiter[a].pc = "resumed" /\ awaiter[a].on # 0
    /\ onEnd[awaiter[a].on].by = j
    /\ onEnd[awaiter[a].on].st = "done"

\* C6: dialog-timeout path. A close interaction whose dialog elapsed has sent exactly
\* one notice, has called neither on_close nor stop, has launched no on_end, and the
\* page's components have the flags they had when close was pressed.
C6_DialogTimeoutLeavesPage ==
  \A j \in Closers :
    closer[j].pc = "timedout" =>
      /\ closer[j].notices = 1
      /\ closer[j].on_close = 0
      /\ closer[j].stop = 0
      /\ \A r \in Runs : onEnd[r].by # j
      /\ disabled[ClosablePage] = closer[j].flags

\* C6 witness: a close interaction has ended by the dialog's timeout, the page still open.
C6_Witness ==
  \E j \in Closers : closer[j].pc = "timedout" /\ closer[j].notices = 1 /\ view = "open"

\* C7: on_end is started at most once in the life of a closable page.
C7_OnEndAtMostOnce == Len(onEnd) <= 1

\* C8: a caller that awaits the page once its ending has begun (stop was called or the
\* host reported the timeout) resumes only after on_end has completed.
C8_AwaitAfterEndJoins ==
  \A a \in Awaiters :
    (awaiter[a].pc = "resumed" /\ awaiter[a].began) => awaiter[a].endDone

\* C9: awaiting the page while no stop has recorded a task resolves at once: the caller
\* is not suspended, and the await launches no on_end.
C9_AwaitBeforeStopReturns ==
  \A a \in Awaiters :
    (awaiter[a].pc # "idle" /\ awaiter[a].on = 0)
    => awaiter[a].pc = "resumed" /\ ~awaiter[a].launched

\* C9 witness: a caller awaited the open page before any stop and has gone on, with no
\* on_end launched.
C9_Witness ==
  \E a \in Awaiters :
    /\ awaiter[a].pc = "resumed" /\ awaiter[a].on = 0 /\ ~awaiter[a].began
    /\ onEnd = <<>> /\ view = "open"

\* The two calls that refresh page o, in the order update, update_message.
BothCalls(o) == << <<"update", o>>, <<"update_message", o>> >>

\* C11: round trip. The child a selection on menu M switches to has M as its parent,
\* and "back" on that child makes one switch whose target is that same object M; the
\* flags of M's components are then what they were when M switched to the child.
C11_RoundTripSameMenu ==
  \A k \in Cbs :
    /\ (cb[k].kind = "select" /\ cb[k].pc = "rendering")
       => /\ cb[k].switches = <<cb[k].child>>
          /\ objs[cb[k].child].parent = cb[k].page
    /\ (cb[k].kind = "back" /\ cb[k].pc \in {"rendering", "refreshing"})
       => /\ cb[k].switches = <<objs[cb[k].page].parent>>
          /\ obj_disabled[objs[cb[k].page].parent] = objs[cb[k].page].seen

\* C11 witness: "back" on a child of the submenu A (a menu that is not the root) has
\* switched to A, whose components, one disabled and one enabled, are as before.
C11_Witness ==
  \E k \in Cbs : \E a, b \in Comps :
    /\ cb[k].kind = "back" /\ cb[k].pc = "refreshing"
    /\ objs[cb[k].page].type = 2
    /\ cb[k].ret = objs[cb[k].page].parent
    /\ objs[cb[k].page].seen[a] /\ ~objs[cb[k].page].seen[b]
    /\ obj_disabled[cb[k].ret] = objs[cb[k].page].seen

\* C12: get_child for a type the parent does not declare fails: the callback that
\* made the call ends by the error with no page returned, no page of an undeclared
\* type is ever constructed under a parent, and the parent's cache has no entry for
\* such a type.
C12_GetChildUndeclaredFails ==
  /\ \A k \in Cbs :
       (cb[k].kind = "getchild" /\ cb[k].value \notin CHILDREN(objs[cb[k].page].type))
       => cb[k].pc = "raised" /\ cb[k].child = 0 /\ cb[k].calls = <<>>
  /\ \A o \in 1..Len(objs) :
       objs[o].parent # 0 => objs[o].type \in CHILDREN(objs[objs[o].parent].type)
  /\ \A o \in 1..Len(objs) : \A t \in Types :
       t \notin CHILDREN(objs[o].type) => child_instances[o][t] = 0

\* C12 witness: on a parent that has constructed a child, get_child for an undeclared
\* type has raised, and the pages are the two there were.
C12_Witness ==
  \E k \in Cbs :
    /\ cb[k].kind = "getchild" /\ cb[k].pc = "raised"
    /\ cb[k].value \notin CHILDREN(objs[cb[k].page].type)
    /\ Len(objs) = 2 /\ objs[2].parent = cb[k].page

\* C13: a selection whose value maps to no declared child is logged and answered with
\* a message, and no error leaves the callback.
C13_UnmappedSelectionReported ==
  \A k \in Cbs :
    (cb[k].kind = "select" /\ cb[k].raw # "")
    => cb[k].logged /\ cb[k].replied /\ cb[k].pc # "raised"

\* C14: once switch has rendered its target, no step of the callback that made the
\* switch renders another page while the target has not ended.
C14_NoRenderAfterSwitch ==
  [][\A k \in Cbs :
       cb[k].pc = "rendering"
       => \/ cb'[k].pc = "rendering"
          \/ ended[SwitchTarget(k)]
          \/ rendered' = rendered]_vars

\* C15: when a wrapped callback that skips no phase has returned, the wrapper has
\* called update and then update_message on the page, once each.
C15_WrapperRefreshesInOrder ==
  \A k \in Cbs :
    (cb[k].pc = "refreshing" /\ ~(cb[k].flags.set /\ (cb[k].flags.du \/ cb[k].flags.dmu)))
    => cb[k].wrapper = BothCalls(cb[k].page)

\* C15 witness: an unmarked wrapped callback has returned and the page was refreshed.
C15_Witness ==
  \E k \in Cbs :
    /\ cb[k].kind = "plain" /\ cb[k].pc = "refreshing" /\ cb[k].flags = NoFlags
    /\ cb[k].wrapper = BothCalls(cb[k].page)

\* C16: the skip flags are independent. After a wrapped callback has returned, update
\* was called (once) iff skip-update is not set, update_message was called (once) iff
\* skip-message-update is not set, update first; and disable_update with its
\* defaults sets skip-update only.
C16_SkipFlagsIndependent ==
  /\ disable_update_default = [set |-> TRUE, du |-> TRUE, dmu |-> FALSE]
  /\ \A k \in Cbs :
       cb[k].pc = "refreshing" =>
         LET w == cb[k].wrapper
             U == {j \in 1..Len(w) : w[j] = <<"update", cb[k].page>>}
             M == {j \in 1..Len(w) : w[j] = <<"update_message", cb[k].page>>}
         IN /\ Cardinality(U) = (IF cb[k].flags.set /\ cb[k].flags.du THEN 0 ELSE 1)
            /\ Cardinality(M) = (IF cb[k].flags.set /\ cb[k].flags.dmu THEN 0 ELSE 1)
            /\ Len(w) = Cardinality(U) + Cardinality(M)

\* C16 witness: a callback marked to skip update_message only has returned, and the
\* wrapper has called update alone.
C16_Witness ==
  \E k \in Cbs :
    /\ cb[k].pc = "refreshing" /\ cb[k].flags = disable_update(FALSE, TRUE)
    /\ cb[k].wrapper = << <<"update", cb[k].page>> >>

\* C17: a wrapped callback whose function raised ends by that error, and the wrapper
\* has called neither update nor update_message, whatever the marking.
C17_RaiseSkipsRefresh ==
  \A k \in Cbs :
    (cb[k].kind = "plain" /\ cb[k].pc = "raised")
    => cb[k].wrapper = <<>> /\ cb[k].calls = <<>>

\* C17 witness: an unmarked wrapped callback has raised; nothing was refreshed.
C17_Witness ==
  \E k \in Cbs :
    /\ cb[k].kind = "plain" /\ cb[k].pc = "raised" /\ cb[k].flags = NoFlags
    /\ cb[k].wrapper = <<>>

\* C19: the callback of the menu's select, a component added after the wrapping, is
\* never followed by the wrapper's refresh: no update or update_message is called
\* on the menu page on its behalf.
C19_SelectNotWrapped ==
  \A k \in Cbs :
    cb[k].kind = "select"
    => /\ cb[k].pc # "refreshing"
       /\ cb[k].wrapper = <<>>
       /\ \A j \in 1..Len(cb[k].calls) : cb[k].calls[j][2] # cb[k].page

\* C19 witness: the first selection on the root has completed and the message still
\* shows the child it switched to.
C19_Witness ==
  /\ \A k \in Cbs : cb[k].pc = "idle"
  /\ Len(objs) = 2 /\ objs[2].parent = 1
  /\ rendered = 2

\* C20: a switch calls update and then update_message on its target, once each and
\* not on the calling page, and returns the target.
C20_SwitchRendersTarget ==
  \A k \in Cbs :
    LET T == CASE cb[k].kind = "select" -> cb[k].child
               [] cb[k].kind = "back"   -> objs[cb[k].page].parent
               [] cb[k].kind = "top"    -> 1
               [] OTHER                 -> 0
    IN /\ cb[k].pc = "rendering"
          => T # cb[k].page /\ cb[k].switches = <<T>> /\ cb[k].calls = BothCalls(T)
       /\ (cb[k].pc = "refreshing" /\ cb[k].kind \in {"back", "top"})
          => cb[k].ret = T /\ SubSeq(cb[k].calls, 1, 2) = BothCalls(T)

\* C20 witness: a switch to the root, made from a page of depth 2, has returned the
\* root after the root's update and update_message.
C20_Witness ==
  \E k \in Cbs :
    /\ cb[k].kind = "top" /\ cb[k].pc = "refreshing"
    /\ objs[cb[k].page].type = 2
    /\ cb[k].ret = 1
    /\ SubSeq(cb[k].calls, 1, 2) = BothCalls(1)

\* The one edit update_message makes for the page p of `objects`.
EditOf(objects, p) ==
  <<objects[p].message, IF objects[p].reset THEN "None" ELSE "MISSING", objects[p].embed, p>>

\* C21: switch given a type constructs exactly one page, bound to the caller's message
\* and embed, renders it and returns it; given an instance it constructs nothing,
\* leaves every page's message and embed as they were, renders the instance into
\* the instance's own message and returns it.
C21_SwitchTypeOrInstance ==
  LET l == pg.last IN
  l.op = "switch" =>
    /\ l.ret = l.page /\ ~l.raised
    /\ l.given = "type" =>
         /\ l.made = 1 /\ pg.objs = Append(l.before, pg.objs[l.ret])
         /\ l.ret = Len(l.before) + 1
         /\ pg.objs[l.ret].message = l.before[l.caller].message
         /\ pg.objs[l.ret].embed = l.before[l.caller].embed
    /\ l.given = "instance" =>
         /\ l.made = 0 /\ pg.objs = l.before /\ l.ret \in 1..Len(l.before)
    /\ IF pg.objs[l.ret].message = 0 THEN l.edits = <<>> /\ l.warned
       ELSE l.edits = <<EditOf(pg.objs, l.ret)>> /\ ~l.warned

\* C21 witness: switch given a type has constructed the third page on the caller's
\* message and embed, rendered and returned it.
C21_Witness ==
  LET l == pg.last IN
  /\ l.op = "switch" /\ l.given = "type" /\ l.made = 1 /\ l.ret = 3
  /\ pg.objs[3].message = pg.objs[l.caller].message /\ pg.objs[3].message # 0
  /\ pg.objs[3].embed = pg.objs[l.caller].embed
  /\ l.edits = <<EditOf(pg.objs, 3)>>

\* C22: update_message on a page with no message makes no edit, raises nothing,
\* changes no page and logs a warning; on a page with a message it makes exactly one
\* edit, of that message, with the page's embed and the page as view, the content
\* None (cleared) iff the page type resets the content, else MISSING (kept).
C22_UpdateMessageUnbound ==
  LET l == pg.last IN
  l.op = "update_message" =>
    /\ pg.objs = l.before /\ ~l.raised
    /\ IF pg.objs[l.page].message = 0
       THEN l.edits = <<>> /\ l.warned
       ELSE /\ ~l.warned
            /\ Len(l.edits) = 1
            /\ l.edits[1][1] = pg.objs[l.page].message
            /\ (l.edits[1][2] = "None") = pg.objs[l.page].reset
            /\ l.edits[1][2] \in {"None", "MISSING"}
            /\ l.edits[1][3] = pg.objs[l.page].embed
            /\ l.edits[1][4] = l.page

\* C22 witness: update_message on a page without message has warned and edited nothing.
C22_Witness ==
  LET l == pg.last IN
  /\ l.op = "update_message" /\ pg.objs[l.page].message = 0
  /\ l.warned /\ l.edits = <<>> /\ ~l.raised

\* C23: the guard is constructed iff its function is a coroutine function; over any
\* other function construction has failed, and then no component flag has changed
\* since, nothing is remembered and no invocation has started.
C23_GuardNeedsCoroutine ==
  decorator.st # "none" =>
    /\ (decorator.st = "built") = iscoroutinefunction(decorator.func)
    /\ (decorator.st = "failed") = ~iscoroutinefunction(decorator.func)
    /\ decorator.st = "failed" =>
         /\ disabled = decorator.flags
         /\ disabled_items = <<>> /\ editor = 0
         /\ \A i \in Invs : inv[i].pc = "idle"

\* C23 witness: construction over a plain function has failed, the pages untouched.
C23_Witness ==
  /\ decorator.st = "failed" /\ decorator.func = "def"
  /\ disabled = decorator.flags /\ \A i \in Invs : inv[i].pc = "idle"

\* C28: a guarded invocation calls update_message of its page twice: once on entry,
\* before the guarded function starts, and once on exit, when the components it
\* remembered are enabled again.
C28_TwoRendersOfThePage ==
  \A i \in Invs :
    /\ inv[i].pc \in {"entering", "body"} => inv[i].renders = <<inv[i].page>>
    /\ Left(i) =>
         /\ inv[i].renders = <<inv[i].page, inv[i].page>>
         /\ \A c \in Comps : ~inv[i].snap[c] => ~inv[i].post[c]

\* Every on_end launched by stop has completed and no caller is suspended on the page.
StopSettled ==
  /\ \A r \in Runs : onEnd[r].via = "stop" => onEnd[r].st = "done"
  /\ \A a \in Awaiters : awaiter[a].pc # "waiting"

\* C29: once stop has been performed the task of an on_end execution is recorded; and
\* every on_end launched by stop completes and every caller suspended on the page
\* resumes: whatever has happened, a state is reached again where all of them have
\* (completion and resumption are final, so this says each of them happens).
C29_StopEndsAndWakes ==
  /\ [](view = "stopped" => ending_task # 0)
  /\ [](\A r \in Runs : onEnd[r].via = "stop" => ending_task # 0)
  /\ []<>StopSettled

\* C29 witness: a caller that awaited the page after a direct stop was suspended on
\* that stop's on_end and has resumed, on_end completed.
C29_Witness ==
  \E a \in Awaiters :
    /\ awaiter[a].pc = "resumed" /\ awaiter[a].on # 0 /\ awaiter[a].endDone
    /\ onEnd[awaiter[a].on].via = "stop" /\ onEnd[awaiter[a].on].by = 0
    /\ onEnd[awaiter[a].on].st = "done"
    /\ view = "stopped"

\* C30: the superclass timeout handling starts only when the on_end execution that
\* on_timeout runs has completed.
C30_OnEndBeforeSuperTimeout ==
  on_timeout.pc = "super" =>
    /\ on_timeout.run \in Runs
    /\ onEnd[on_timeout.run].via = "timeout"
    /\ onEnd[on_timeout.run].st = "done"

\* C30 witness: after a timeout, on_end has completed and the superclass handling runs.
C30_Witness ==
  /\ view = "timedout" /\ on_timeout.pc = "super"
  /\ onEnd[on_timeout.run].st = "done"

\* C24: a LimitedList created with size n and at most n elements never holds more than
\* n elements, whatever append, extend and extend_safely calls are made on it, and
\* append on a list that holds n elements raises and leaves the list as it was.
C24_LengthWithinSize ==
  /\ Len(ll.items) <= ll.size
  /\ (ll.last.op = "append" /\ Len(ll.last.before) = ll.size) =>
       (ll.last.raised /\ ll.items = ll.last.before)

\* C25: extend_safely(xs) appends all of xs when len(self) + len(xs) stays within the
\* size, and raises leaving the list unchanged when it would not.
C25_ExtendSafelyWithinBound ==
  ll.last.op = "extend_safely" =>
    IF Len(ll.last.before) + Len(ll.last.arg) <= ll.size
    THEN ~ll.last.raised /\ ll.items = ll.last.before \o ll.last.arg
    ELSE ll.last.raised /\ ll.items = ll.last.before

\* C26: a get() for a channel the pool already holds a webhook for (an earlier get(),
\* no clear() since) returns that webhook and neither fetches nor creates a webhook
\* through the API.
C26_SecondGetUsesCache ==
  (pool.last.op = "get" /\ pool.last.cached) =>
    /\ pool.last.fetches = 0 /\ pool.last.creates = 0
    /\ pool.last.ret = pool.last.was

\* The buttons that have been pressed on the confirmation view.
Pressed == {cv.press[k].button : k \in {i \in Presses : cv.press[i].pc # "idle"}}

\* The callbacks that have set the future's result (set_result returned).
SetBy == {cv.press[k].button : k \in {i \in Presses : cv.press[i].pc = "done"}}

\* C27: a caller that awaits a ConfirmationView gets True when Confirm was pressed,
\* False when Cancel was pressed, and TimeoutError when the view timed out without a
\* press.
C27_AwaitYieldsTheAnswer ==
  \A a \in ConfAwaiters : cv.aw[a].pc = "resumed" =>
    /\ Pressed = {"confirm"} => cv.aw[a].outcome = "True"
    /\ Pressed = {"cancel"} => cv.aw[a].outcome = "False"
    /\ (Pressed = {} /\ cv.view = "timedout") => cv.aw[a].outcome = "TimeoutError"

\* C27 as amended: the caller gets True when Confirm was pressed and False when Cancel
\* was pressed, if the view has not timed out; it gets TimeoutError when the view timed
\* out without a press. When the view timed out while the callback of a press had not
\* yet set the result, the caller gets what was set first: the button's answer if the
\* callback has set it, TimeoutError if on_timeout has.
C27_AwaitYieldsFirstResult ==
  \A a \in ConfAwaiters : cv.aw[a].pc = "resumed" =>
    /\ (Pressed = {"confirm"} /\ cv.view # "timedout") => cv.aw[a].outcome = "True"
    /\ (Pressed = {"cancel"} /\ cv.view # "timedout") => cv.aw[a].outcome = "False"
    /\ (Pressed = {} /\ cv.view = "timedout") => cv.aw[a].outcome = "TimeoutError"
    /\ cv.aw[a].outcome = "True" => "confirm" \in SetBy
    /\ cv.aw[a].outcome = "False" => "cancel" \in SetBy
    /\ cv.aw[a].outcome = "TimeoutError" =>
         (cv.view = "timedout" /\ cv.on_timeout = "done" /\ SetBy = {})
    /\ cv.aw[a].outcome \in {"True", "False", "TimeoutError"}

\* C27 witness: a caller that was waiting has resumed with True after a press of Confirm.
C27_Witness ==
  /\ Pressed = {"confirm"} /\ cv.view = "stopped"
  /\ \E a \in ConfAwaiters :
       cv.aw[a].pc = "resumed" /\ cv.aw[a].waited /\ cv.aw[a].outcome = "True"

C32_SetComponentState ==
  LET l == pg.last IN
  l.op = "set_component_state" =>
    /\ \A c \in Comps : pg.objs[l.page].disabled[c] = l.state
    /\ l.shown = pg.objs[l.page].disabled
    /\ ~l.raised
    /\ IF pg.objs[l.page].message = 0 THEN l.edits = <<>> /\ l.warned
       ELSE l.edits = <<EditOf(pg.objs, l.page)>> /\ ~l.warned
    /\ Len(pg.objs) = Len(l.before)
    /\ DOMAIN pg.objs[l.page].disabled = DOMAIN l.before[l.page].disabled
    /\ pg.objs[l.page].message = l.before[l.page].message
    /\ pg.objs[l.page].embed = l.before[l.page].embed
    /\ pg.objs[l.page].reset = l.before[l.page].reset
    /\ \A q \in 1..Len(pg.objs) : q # l.page => pg.objs[q] = l.before[q]

\* C32 witness: set_component_state(False) on a bound page that had one component
\* disabled and one enabled has enabled both and made its one edit.
C32_Witness ==
  LET l == pg.last IN
  /\ l.op = "set_component_state" /\ ~l.state
  /\ \E a, b \in Comps : l.before[l.page].disabled[a] /\ ~l.before[l.page].disabled[b]
  /\ \A c \in Comps : ~pg.objs[l.page].disabled[c]
  /\ l.edits = <<EditOf(pg.objs, l.page)>>

\* C33: while an invocation of the guarded callback is in progress on a page, every
\* component of that page is disabled, whatever invocations on other pages of the
\* type start or finish meanwhile, and the exit of an invocation renders its own page.
C33_OtherPagesDoNotInterfere ==
  \A i \in Invs :
    (\A j \in Invs \ {i} : inv[j].page # inv[i].page) =>
      /\ inv[i].pc \in {"entering", "body"} => \A c \in Comps : disabled[inv[i].page][c]
      /\ Left(i) => inv[i].renders[Len(inv[i].renders)] = inv[i].page

\* C34: when a guarded invocation has ended, by return or by an error of any of its
\* steps (the entry render too), the components that were enabled at its entry are
\* enabled and the guard remembers nothing.
C34_EndedInvocationReleased ==
  \A i \in Invs :
    inv[i].pc \in {"returned", "raised", "failed"} =>
      /\ \A c \in Comps : ~inv[i].snap[c] => ~inv[i].post[c]
      /\ inv[i].postItems = <<>>

\* C35: when the Back callback of a submenu and the refresh wrapper around it have
\* made all their calls, the page last rendered into the shared message is the
\* submenu's parent.
C35_BackShowsParent ==
  \A k \in Cbs :
    (cb[k].kind = "back" /\ cb[k].pc = "refreshing") =>
      rendered = objs[cb[k].page].parent

\* C36: when close interactions overlap on a closable page (close pressed again while
\* the dialog before is open) and their dialogs are submitted, on_close has run at
\* most once and stop has been called at most once.
C36_OverlappingClosesEndOnce ==
  /\ Cardinality({j \in Closers : closer[j].on_close > 0}) <= 1
  /\ Cardinality({j \in Closers : closer[j].stop > 0}) <= 1

\* C37: the result of a ConfirmationView is decided once: a press or a timeout that
\* comes while the callback of an earlier press is still in defer raises no error
\* (no set_result or set_exception on a future that is done), and a caller that has
\* resumed holds the result the future has.
C37_DecidedOnceWithoutError ==
  /\ \A k \in Presses : cv.press[k].pc # "raised"
  /\ cv.on_timeout # "raised"
  /\ \A a \in ConfAwaiters : cv.aw[a].pc = "resumed" => cv.aw[a].outcome = cv.future

\* C38: for a raw snowflake with timestamp >= 0, worker_id and process_id in 0..31 and
\* increment in 0..4095, from_int(raw.to_int()) is raw.
C38_SnowflakeRoundTrip ==
  sf.st = "decoded" => sf.back = RawBits(sf.raw)

====
